---- MODULE Spec2Model ----
(***************************************************************************)
(* Model of the jbod enclosure inventory (src/src/jbod/enclosure.rs):      *)
(* get_enclosure, get_enclosure_details and the three sensor passes        *)
(* get_enclosure_fan / get_enclosure_temp / get_enclosure_voltage with     *)
(* their per-index detail parsers.                                         *)
(*                                                                         *)
(* Text is modelled as a sequence of one-character strings, so that        *)
(* contains / replace / trim / split and the regex are computed on the     *)
(* characters, as the code computes them.                                  *)
(***************************************************************************)
EXTENDS Integers, Sequences, FiniteSets, TLC

(***************************************************************************)
(* Bounds of the model.                                                    *)
(***************************************************************************)
\* longest lsscsi output, in lines
MaxLsscsiLines == 2

\* longest sg_ses element listing (before grep), in lines
MaxListingLines == 2

\* longest sg_inq output in the enclosure listing command, in lines
MaxInqLines == 2

\* characters of a text the integer extraction is applied to alone
MaxTextLen == 4

(***************************************************************************)
(* Rust str primitives used by the parsers.                                *)
(***************************************************************************)
Digit == {"0","1","2","3","4","5","6","7","8","9"}

\* char::to_digit(10)
to_digit(c) ==
    CASE c = "0" -> 0 [] c = "1" -> 1 [] c = "2" -> 2 [] c = "3" -> 3
      [] c = "4" -> 4 [] c = "5" -> 5 [] c = "6" -> 6 [] c = "7" -> 7
      [] c = "8" -> 8 [] c = "9" -> 9

\* char::is_whitespace, on the characters of the inputs
is_whitespace(c) == c \in {" ", "\t", "\n", "\r"}

Drop(s, n) == SubSeq(s, n + 1, Len(s))

starts_with(s, p) == Len(p) <= Len(s) /\ SubSeq(s, 1, Len(p)) = p

\* str::find: index (from 1) of the first occurrence of p in s, 0 if none
find(s, p) ==
    LET hits == {i \in 1..(Len(s) - Len(p) + 1) : SubSeq(s, i, i + Len(p) - 1) = p}
    IN  IF hits = {} THEN 0 ELSE CHOOSE i \in hits : \A j \in hits : i <= j

\* str::contains
contains(s, p) == Len(p) = 0 \/ find(s, p) > 0

\* str::replace(from, ""): every non-overlapping occurrence, left to right
RECURSIVE replace(_, _)
replace(s, from) ==
    IF Len(s) = 0 THEN s
    ELSE IF starts_with(s, from) /\ Len(from) > 0 THEN replace(Drop(s, Len(from)), from)
    ELSE <<Head(s)>> \o replace(Tail(s), from)

\* str::replace(&['[', ']'][..], ""): drops every character of the set
RECURSIVE replace_chars(_, _)
replace_chars(s, cs) ==
    IF Len(s) = 0 THEN s
    ELSE IF Head(s) \in cs THEN replace_chars(Tail(s), cs)
    ELSE <<Head(s)>> \o replace_chars(Tail(s), cs)

RECURSIVE trim_start(_)
trim_start(s) ==
    IF Len(s) > 0 /\ is_whitespace(Head(s)) THEN trim_start(Tail(s)) ELSE s

RECURSIVE trim_end(_)
trim_end(s) ==
    IF Len(s) > 0 /\ is_whitespace(s[Len(s)]) THEN trim_end(SubSeq(s, 1, Len(s) - 1)) ELSE s

\* str::trim
trim(s) == trim_end(trim_start(s))

\* str::split(pattern): the pieces between the occurrences of a non-empty
\* pattern; a text without the pattern is one piece, empty pieces are kept
RECURSIVE split(_, _)
split(s, p) ==
    LET i == find(s, p)
    IN  IF i = 0 THEN <<s>>
        ELSE <<SubSeq(s, 1, i - 1)>> \o split(Drop(s, i + Len(p) - 1), p)

RECURSIVE take_while_not_white(_)
take_while_not_white(s) ==
    IF Len(s) = 0 \/ is_whitespace(Head(s)) THEN <<>>
    ELSE <<Head(s)>> \o take_while_not_white(Tail(s))

\* str::split_whitespace: the maximal runs of non-whitespace characters
RECURSIVE split_whitespace(_)
split_whitespace(s) ==
    LET t == trim_start(s)
    IN  IF Len(t) = 0 THEN <<>>
        ELSE LET w == take_while_not_white(t)
             IN  <<w>> \o split_whitespace(Drop(t, Len(w)))

\* Vec::retain(|&content| !content.is_empty())
retain_non_empty(v) == SelectSeq(v, LAMBDA x : Len(x) > 0)

\* Iterator::position: index (from 1) of the first element containing p, 0 if none
position(v, p) ==
    LET hits == {i \in 1..Len(v) : contains(v[i], p)}
    IN  IF hits = {} THEN 0 ELSE CHOOSE i \in hits : \A j \in hits : i <= j

RECURSIVE skip_while_not_digit(_)
skip_while_not_digit(s) ==
    IF Len(s) > 0 /\ Head(s) \notin Digit THEN skip_while_not_digit(Tail(s)) ELSE s

\* mutant of take_while_digit: every digit after the skipped prefix is taken
RECURSIVE take_all_digits(_)
take_all_digits(s) ==
    IF Len(s) = 0 THEN <<>>
    ELSE IF Head(s) \in Digit THEN <<Head(s)>> \o take_all_digits(Tail(s))
    ELSE take_all_digits(Tail(s))

RECURSIVE take_while_digit(_)
take_while_digit(s) ==
    IF Len(s) > 0 /\ Head(s) \in Digit THEN <<Head(s)>> \o take_while_digit(Tail(s)) ELSE <<>>

\* The accumulator of the fold is a u32.  It is kept as two 16-bit limbs,
\* value = hi * Limb + lo, so that the arithmetic modulo 2^32 is exact.
Limb == 65536

\* acc * 10 + b in u32: the low 32 bits, and whether the exact result
\* needed more than 32 bits
u32_mul10_add(acc, b) ==
    LET lo == acc.lo * 10 + b
        hi == acc.hi * 10 + (lo \div Limb)
    IN  [hi |-> hi % Limb, lo |-> lo % Limb, wrapped |-> acc.wrapped \/ hi >= Limb]

\* fold(None, |acc, c| c.to_digit(10).map(|b| acc.unwrap_or(0) * 10 + b))
\* over a non-empty digit run, from acc
RECURSIVE fold_digits(_, _)
fold_digits(acc, s) ==
    IF Len(s) = 0 THEN acc
    ELSE fold_digits(u32_mul10_add(acc, to_digit(Head(s))), Tail(s))

\* the value of a decimal digit string, exact
RECURSIVE decimal_value(_, _)
decimal_value(acc, s) ==
    IF Len(s) = 0 THEN acc ELSE decimal_value(acc * 10 + to_digit(Head(s)), Tail(s))

\* the digit run the chain skip_while / take_while leaves of a field
digit_run(field) == take_while_digit(skip_while_not_digit(trim(field)))

\* the Option<u32> of the chain: [some |-> FALSE] is None; wrapped tells
\* that the u32 arithmetic overflowed on the way
first_integer(field) ==
    LET run == digit_run(field)
        acc == fold_digits([hi |-> 0, lo |-> 0, wrapped |-> FALSE], run)
    IN  IF Len(run) = 0 THEN [some |-> FALSE, val |-> 0, wrapped |-> FALSE]
        ELSE [some |-> TRUE, val |-> acc.hi * Limb + acc.lo, wrapped |-> acc.wrapped]

(***************************************************************************)
(* str::parse::<f64> on the decimal literals: [sign] digits [. digits] or  *)
(* [sign] . digits, with an optional exponent.  The value is kept as the   *)
(* pair (num, scale) meaning num / 10^scale.                               *)
(***************************************************************************)
all_digits(s) == \A i \in 1..Len(s) : s[i] \in Digit

strip_sign(s) == IF Len(s) > 0 /\ Head(s) \in {"+", "-"} THEN Tail(s) ELSE s

\* mantissa without sign and exponent
is_mantissa(s) ==
    LET parts == split(s, <<".">>)
    IN  /\ Len(parts) \in {1, 2}
        /\ \A i \in 1..Len(parts) : all_digits(parts[i])
        /\ \E i \in 1..Len(parts) : Len(parts[i]) > 0

exp_index(s) ==
    LET hits == {i \in 1..Len(s) : s[i] \in {"e", "E"}}
    IN  IF hits = {} THEN 0 ELSE CHOOSE i \in hits : \A j \in hits : i <= j

\* char::to_ascii_lowercase on the letters of "inf", "infinity" and "nan"
to_lower(c) ==
    CASE c = "I" -> "i" [] c = "N" -> "n" [] c = "F" -> "f" [] c = "T" -> "t"
      [] c = "Y" -> "y" [] c = "A" -> "a" [] OTHER -> c

\* the literals without digits that parse::<f64> accepts, in any case
is_special(body) ==
    [i \in 1..Len(body) |-> to_lower(body[i])] \in
        {<<"i","n","f">>, <<"n","a","n">>, <<"i","n","f","i","n","i","t","y">>}

is_f64(tok) ==
    LET body == strip_sign(tok)
        e    == exp_index(body)
        mant == IF e = 0 THEN body ELSE SubSeq(body, 1, e - 1)
        ex   == IF e = 0 THEN <<"0">> ELSE strip_sign(Drop(body, e))
    IN  \/ is_special(body)
        \/ /\ is_mantissa(mant)
           /\ Len(ex) > 0 /\ all_digits(ex)

\* Result<f64, ParseFloatError>: ok = FALSE is the Err
parse_f64(tok) ==
    IF ~is_f64(tok) THEN [ok |-> FALSE, num |-> 0, scale |-> 0]
    ELSE IF is_special(strip_sign(tok)) THEN [ok |-> TRUE, num |-> strip_sign(tok), scale |-> 0]
    ELSE LET body  == strip_sign(tok)
             e     == exp_index(body)
             mant  == IF e = 0 THEN body ELSE SubSeq(body, 1, e - 1)
             parts == split(mant, <<".">>)
             frac  == IF Len(parts) = 2 THEN parts[2] ELSE <<>>
             mag   == decimal_value(0, parts[1] \o frac)
             expo  == IF e = 0 THEN 0
                      ELSE LET x == Drop(body, e)
                           IN  IF Head(x) = "-" THEN 0 - decimal_value(0, strip_sign(x))
                               ELSE decimal_value(0, strip_sign(x))
         IN  [ok    |-> TRUE,
              num   |-> IF Head(tok) = "-" THEN 0 - mag ELSE mag,
              scale |-> Len(frac) - expo]

(***************************************************************************)
(* The regex "(?P<desc>.*?)\[(?P<id>-?\d+,-?\d+)\].*KEYWORD" of the passes. *)
(***************************************************************************)
\* end of "-?\d+" starting at position p of s, 0 if it does not start there
int_end(s, p) ==
    LET q == IF p <= Len(s) /\ s[p] = "-" THEN p + 1 ELSE p
        n == Len(take_while_digit(Drop(s, q - 1)))
    IN  IF q > Len(s) \/ n = 0 THEN 0 ELSE q + n - 1

\* position of the "]" closing "\[-?\d+,-?\d+\]" opened at p, 0 if none
bracket_end(s, p) ==
    IF p > Len(s) \/ s[p] # "[" THEN 0
    ELSE LET a == int_end(s, p + 1)
         IN  IF a = 0 \/ a + 1 > Len(s) \/ s[a + 1] # "," THEN 0
             ELSE LET b == int_end(s, a + 2)
                  IN  IF b = 0 \/ b + 1 > Len(s) \/ s[b + 1] # "]" THEN 0
                      ELSE b + 1

\* the positions where "\[id\].*keyword" matches
regex_starts(s, keyword) ==
    {p \in 1..Len(s) : bracket_end(s, p) > 0 /\ contains(Drop(s, bracket_end(s, p)), keyword)}

\* Regex::is_match
is_match(s, keyword) == regex_starts(s, keyword) # {}

\* mutant of captures: desc is greedy and ends at the last position where
\* the rest of the pattern matches
captures_greedy(s, keyword) ==
    LET starts == regex_starts(s, keyword)
        p == CHOOSE i \in starts : \A j \in starts : i >= j
    IN  [desc |-> SubSeq(s, 1, p - 1), id |-> SubSeq(s, p + 1, bracket_end(s, p) - 1)]

\* Regex::captures: the lazy desc makes the leftmost match end desc at the
\* first position where the rest of the pattern matches
captures(s, keyword) ==
    LET starts == regex_starts(s, keyword)
        p == CHOOSE i \in starts : \A j \in starts : i <= j
    IN  [desc |-> SubSeq(s, 1, p - 1), id |-> SubSeq(s, p + 1, bracket_end(s, p) - 1)]

K_enclosu == <<"e","n","c","l","o","s","u">>

K_dev == <<"/","d","e","v","/">>

NONE == <<"N","O","N","E">>

K_Vendor == <<"V","e","n","d","o","r">>

K_identification == <<"i","d","e","n","t","i","f","i","c","a","t","i","o","n">>

K_revision == <<"r","e","v","i","s","i","o","n">>

K_serial == <<"s","e","r","i","a","l">>

P_Vendor == <<"V","e","n","d","o","r"," ","i","d","e","n","t","i","f","i","c","a","t","i","o","n",":">>

P_Product == <<"P","r","o","d","u","c","t"," ","i","d","e","n","t","i","f","i","c","a","t","i","o","n",":">>

P_Revision == <<"P","r","o","d","u","c","t"," ","r","e","v","i","s","i","o","n"," ","l","e","v","e","l",":">>

P_Serial == <<"U","n","i","t"," ","s","e","r","i","a","l"," ","n","u","m","b","e","r",":">>

K_speed == <<"s","p","e","e","d">>

K_status == <<"s","t","a","t","u","s",":">>

K_TemperatureEq == <<"T","e","m","p","e","r","a","t","u","r","e","=">>

K_VoltageColon == <<"V","o","l","t","a","g","e",":">>

K_Cooling == <<"C","o","o","l","i","n","g">>

K_Temperature == <<"T","e","m","p","e","r","a","t","u","r","e">>

K_Voltage == <<"V","o","l","t","a","g","e">>

G_Temperature == <<"T","e","m","p","e","r","a","t","u","r","e"," ","s","e","n","s","o","r">>

G_Voltage == <<"V","o","l","t","a","g","e"," ","s","e","n","s","o","r">>

NotInstalled == <<"N","o","t"," ","i","n","s","t","a","l","l","e","d">>

L_enc3 == <<"[","0","]"," ","e","n","c","l","o","s","u"," ","/","d","e","v","/","s","g","3">>

L_enc4 == <<"[","1","]"," "," ","e","n","c","l","o","s","u"," ","-"," ","/","d","e","v","/","s","g","4">>

L_disk == <<"[","2","]"," ","d","i","s","k"," ","/","d","e","v","/","s","d","a">>

L_nodev == <<"[","3","]"," ","e","n","c","l","o","s","u"," ","-">>

I_Vendor == <<"V","e","n","d","o","r"," ","i","d","e","n","t","i","f","i","c","a","t","i","o","n",":"," ","A","C","M","E">>

I_Product == <<"P","r","o","d","u","c","t"," ","i","d","e","n","t","i","f","i","c","a","t","i","o","n",":"," ","J","1">>

I_Revision == <<"P","r","o","d","u","c","t"," ","r","e","v","i","s","i","o","n"," ","l","e","v","e","l",":"," ","0","1">>

I_Serial == <<"U","n","i","t"," ","s","e","r","i","a","l"," ","n","u","m","b","e","r",":"," ","S","1">>

FanA == <<"F","1"," ","[","2",",","-","1","]"," ","C","o","o","l","i","n","g">>

FanB == <<"F","2"," ","[","3",",","0","]"," ","C","o","o","l","i","n","g">>

FanJunk == <<"C","o","o","l","i","n","g"," ","[","4",",","1","]">>

FanMulti == <<"F","3"," ","[","5","]"," ","[","6",",","7","]"," ","x"," ","[","8",",","9","]"," ","C","o","o","l","i","n","g"," ","[","1",",","1","]">>

TempA == <<"T","1"," ","[","2",",","-","1","]"," ","T","e","m","p","e","r","a","t","u","r","e"," ","s","e","n","s","o","r">>

TempB == <<"T","2"," ","[","3",",","0","]"," ","T","e","m","p","e","r","a","t","u","r","e"," ","s","e","n","s","o","r">>

TempJunk == <<"T","e","m","p","e","r","a","t","u","r","e"," ","s","e","n","s","o","r"," ","[","4",",","1","]">>

TempMulti == <<"T","3"," ","[","5","]"," ","[","6",",","7","]"," ","x"," ","[","8",",","9","]"," ","T","e","m","p","e","r","a","t","u","r","e"," ","s","e","n","s","o","r"," ","[","1",",","1","]">>

VoltA == <<"V","1"," ","[","2",",","-","1","]"," ","V","o","l","t","a","g","e"," ","s","e","n","s","o","r">>

VoltB == <<"V","2"," ","[","3",",","0","]"," ","V","o","l","t","a","g","e"," ","s","e","n","s","o","r">>

VoltJunk == <<"V","o","l","t","a","g","e"," ","s","e","n","s","o","r"," ","[","4",",","1","]">>

VoltMulti == <<"V","3"," ","[","5","]"," ","[","6",",","7","]"," ","x"," ","[","8",",","9","]"," ","V","o","l","t","a","g","e"," ","s","e","n","s","o","r"," ","[","1",",","1","]">>

F_ok == <<"O","f","f","=","0",","," ","s","p","e","e","d","=","7","2"," ","r","p","m",","," ","l","o","w","\n">>

F_nodigit == <<"O","f","f","=","0",","," ","s","p","e","e","d","=","n","/","a",","," ","l","o","w","\n">>

F_few == <<"s","p","e","e","d","=","7","2"," ","r","p","m","\n">>

F_two == <<"O","f","f","=","0",","," ","s","p","e","e","d","=","7","2"," ","r","p","m","\n">>

F_none == <<"O","f","f","=","0","\n">>

F_big == <<"O","f","f","=","0",","," ","s","p","e","e","d","=","4","2","9","4","9","6","7","2","9","7"," ","r","p","m",","," ","l","o","w","\n">>

T_ok == <<"s","t","a","t","u","s",":"," ","O","K","\n","T","e","m","p","e","r","a","t","u","r","e","=","2","7"," ","C","\n">>

T_nodigit == <<"s","t","a","t","u","s",":"," ","O","K","\n","T","e","m","p","e","r","a","t","u","r","e","=","n","/","a","\n">>

T_none == <<"I","d","e","n","t","=","0","\n">>

T_big == <<"s","t","a","t","u","s",":"," ","O","K","\n","T","e","m","p","e","r","a","t","u","r","e","=","4","2","9","4","9","6","7","3","2","1"," ","C","\n">>

T_absent == <<"s","t","a","t","u","s",":"," ","N","o","t"," ","i","n","s","t","a","l","l","e","d","\n">>

V_ok == <<"s","t","a","t","u","s",":"," ","O","K","\n","V","o","l","t","a","g","e",":"," ","1","2",".","5"," ","v","o","l","t","s","\n">>

V_bad == <<"s","t","a","t","u","s",":"," ","O","K","\n","V","o","l","t","a","g","e",":"," ","a","b","c"," ","v","o","l","t","s","\n">>

V_missing == <<"V","o","l","t","a","g","e",":","\n">>

V_absent ==
    <<"s","t","a","t","u","s",":"," ","N","o","t"," ","i","n","s","t","a","l","l","e","d","\n">>

V_none == <<"I","d","e","n","t","=","0","\n">>

(***************************************************************************)
(* The parsers of the tool outputs, as pure functions of the output text.  *)
(***************************************************************************)
lines_of(text) == split(text, <<"\n">>)

\* one turn of the loop of get_enclosure_details over a line of sg_inq
details_line(acc, output) ==
    LET a1 == IF contains(output, K_Vendor)
              THEN [acc EXCEPT !.vendor = trim(replace(output, P_Vendor))] ELSE acc
        a2 == IF contains(output, K_identification)
              THEN [a1 EXCEPT !.ident = trim(replace(output, P_Product))] ELSE a1
        a3 == IF contains(output, K_revision)
              THEN [a2 EXCEPT !.rev = trim(replace(output, P_Revision))] ELSE a2
        a4 == IF contains(output, K_serial)
              THEN [a3 EXCEPT !.serial = trim(replace(output, P_Serial))] ELSE a3
    IN  a4

RECURSIVE details_loop(_, _)
details_loop(acc, ls) ==
    IF Len(ls) = 0 THEN acc ELSE details_loop(details_line(acc, Head(ls)), Tail(ls))

\* (vendor, ident, rev, serial) of an sg_inq output
parse_enclosure_details(sginq) ==
    details_loop([vendor |-> NONE, ident |-> NONE, rev |-> NONE, serial |-> NONE],
                 lines_of(sginq))

\* one turn of the loop of get_enclosure_fan_speed; a panic stops the loop.
\* overflow_checks: whether the build panics on integer overflow
fan_speed_line(acc, output, overflow_checks) ==
    IF acc.panic # "none" \/ ~contains(output, K_speed) THEN acc
    ELSE LET output_speed == split(output, <<",">>)
             _speed == first_integer(output_speed[2])
         IN  IF Len(output_speed) < 2 THEN [acc EXCEPT !.panic = "speed_index"]
             ELSE IF _speed.wrapped /\ overflow_checks THEN [acc EXCEPT !.panic = "speed_overflow"]
             ELSE IF ~_speed.some THEN [acc EXCEPT !.panic = "speed_unwrap"]
             ELSE IF Len(output_speed) < 3
                  THEN [acc EXCEPT !.speed = _speed.val, !.panic = "comment_index"]
             ELSE [acc EXCEPT !.speed = _speed.val, !.comment = trim(output_speed[3])]

RECURSIVE fan_speed_loop(_, _, _)
fan_speed_loop(acc, ls, oc) ==
    IF Len(ls) = 0 THEN acc ELSE fan_speed_loop(fan_speed_line(acc, Head(ls), oc), Tail(ls), oc)

\* mutant of parse_fan_speed: the speed is an Option that is unwrapped after
\* the loop, without the default
parse_fan_speed_required(sg_ses, oc) ==
    LET r == fan_speed_loop([speed |-> 0, comment |-> <<>>, panic |-> "none"], lines_of(sg_ses), oc)
    IN  IF r.panic = "none" /\ ~contains(sg_ses, K_speed)
        THEN [r EXCEPT !.panic = "speed_unwrap"] ELSE r

\* (speed, comment) of a detail output, or the panic of the parse
parse_fan_speed(sg_ses, oc) ==
    fan_speed_loop([speed |-> 0, comment |-> <<>>, panic |-> "none"], lines_of(sg_ses), oc)

\* the "status:" rule shared by the temperature and voltage parsers
status_of(acc, output) ==
    IF contains(output, K_status)
    THEN [acc EXCEPT !.status = trim(split(output, K_status)[2])] ELSE acc

\* one turn of the loop of get_enclosure_temp_value
temp_value_line(acc, output, overflow_checks) ==
    IF acc.panic # "none" THEN acc
    ELSE LET a1 == status_of(acc, output)
             output_temp == split(output, <<"=">>)
             _temp == first_integer(output_temp[2])
         IN  IF ~contains(output, K_TemperatureEq) THEN a1
             ELSE IF _temp.wrapped /\ overflow_checks THEN [a1 EXCEPT !.panic = "temp_overflow"]
             ELSE IF ~_temp.some THEN [a1 EXCEPT !.panic = "temp_unwrap"]
             ELSE [a1 EXCEPT !.temp = _temp.val]

RECURSIVE temp_value_loop(_, _, _)
temp_value_loop(acc, ls, oc) ==
    IF Len(ls) = 0 THEN acc ELSE temp_value_loop(temp_value_line(acc, Head(ls), oc), Tail(ls), oc)

\* (temp, status) of a detail output, or the panic of the parse
parse_temp_value(sg_ses, oc) ==
    temp_value_loop([temp |-> 0, status |-> <<>>, panic |-> "none"], lines_of(sg_ses), oc)

\* an f64 in lowest terms: num / 10^scale with scale >= 0
RECURSIVE f64_value(_, _)
f64_value(num, scale) ==
    IF scale < 0 THEN f64_value(num * 10, scale + 1)
    ELSE IF num = 0 THEN [num |-> 0, scale |-> 0]
    ELSE IF scale > 0 /\ num % 10 = 0 THEN f64_value(num \div 10, scale - 1)
    ELSE [num |-> num, scale |-> scale]

\* one turn of the loop of get_enclosure_voltage_value
voltage_value_line(acc, output) ==
    IF acc.panic # "none" THEN acc
    ELSE LET a1 == status_of(acc, output)
             output_voltage == split_whitespace(output)
             _voltage == parse_f64(trim(output_voltage[2]))
         IN  IF ~contains(output, K_VoltageColon) THEN a1
             ELSE IF Len(output_voltage) < 2 THEN [a1 EXCEPT !.panic = "voltage_index"]
             ELSE IF ~_voltage.ok THEN [a1 EXCEPT !.panic = "voltage_unwrap"]
             ELSE IF is_special(strip_sign(trim(output_voltage[2])))
                  THEN [a1 EXCEPT !.voltage = [num |-> _voltage.num, scale |-> 0]]
             ELSE [a1 EXCEPT !.voltage = f64_value(_voltage.num, _voltage.scale)]

RECURSIVE voltage_value_loop(_, _)
voltage_value_loop(acc, ls) ==
    IF Len(ls) = 0 THEN acc ELSE voltage_value_loop(voltage_value_line(acc, Head(ls)), Tail(ls))

\* (voltage, status) of a detail output, or the panic of the parse
parse_voltage_value(sg_ses) ==
    voltage_value_loop([voltage |-> [num |-> 0, scale |-> 0], status |-> <<>>, panic |-> "none"],
                       lines_of(sg_ses))

(***************************************************************************)
(* The outputs the external tools are explored with.                       *)
(***************************************************************************)
SeqsUpTo(S, n) == UNION {[1..k -> S] : k \in 0..n}

\* a tool output: every line followed by a newline
RECURSIVE join_lines(_)
join_lines(ls) ==
    IF Len(ls) = 0 THEN <<>> ELSE Head(ls) \o <<"\n">> \o join_lines(Tail(ls))

LsscsiLines == {L_enc3, L_enc4, L_disk, L_nodev}

LsscsiOutputs == {join_lines(ls) : ls \in SeqsUpTo(LsscsiLines, MaxLsscsiLines)}

SgInqLines == {I_Vendor, I_Product, I_Revision, I_Serial}

\* The sg_inq outputs.  A host with one enclosure is explored with every
\* short output when the command lists the enclosures; otherwise an
\* enclosure answers without any line or with the four lines.
SgInqOutputs(p, deep) ==
    IF p = "enclosure" /\ deep
    THEN {join_lines(ls) : ls \in SeqsUpTo(SgInqLines, MaxInqLines)}
    ELSE {<<>>, join_lines(<<I_Vendor, I_Product, I_Revision, I_Serial>>)}

\* The lines of a sensor listing.  The lines the grep lets through and the
\* regex rejects, and the lines with several bracketed tokens, are explored
\* on a host with one enclosure.
ListingLines(p, deep) ==
    CASE p = "fan"     -> {FanA, FanB} \cup (IF deep THEN {FanJunk, FanMulti} ELSE {})
      [] p = "temp"    -> {TempA, TempB} \cup (IF deep THEN {TempJunk, TempMulti} ELSE {})
      [] p = "voltage" -> {VoltA, VoltB} \cup (IF deep THEN {VoltJunk, VoltMulti} ELSE {})

\* the lines sg_ses -j -ff writes, before the grep of the pipeline
ListingOutputs(p, deep) == SeqsUpTo(ListingLines(p, deep), MaxListingLines)

\* The detail outputs.  A sensor answers with the well-formed output or
\* with one whose value has no number; the outputs with too few fields,
\* those without the value line and those of a sensor that is not installed
\* are explored on a host with one enclosure.
FanOutputs(deep) ==
    {F_ok, F_nodigit} \cup (IF deep THEN {F_few, F_two, F_none} ELSE {})

TempOutputs(deep) ==
    {T_ok, T_nodigit} \cup (IF deep THEN {T_none, T_absent} ELSE {})

VoltageOutputs(deep) ==
    {V_ok, V_bad} \cup (IF deep THEN {V_missing, V_none, V_absent} ELSE {})

(***************************************************************************)
(* State.                                                                  *)
(***************************************************************************)
VARIABLES
    pass,              \* the command: "enclosure", "fan", "temp" or "voltage"
    pc,                \* where the command is
    panic_at,          \* the expect / unwrap / index that panicked, or "none"
    lsscsi_output,     \* get_enclosure: stdout of lsscsi -g
    li,                \* get_enclosure: the line of lsscsi_output the loop is at
    sginq_output,      \* get_enclosure_details: stdout of the last sg_inq
    enclosure,         \* get_enclosure: the Vec<Enclosure>
    ei,                \* sensor pass: the enclosure the loop is at
    stream,            \* sensor pass: the lines of the open pipe not read yet
    x,                 \* sensor pass: the line the closure is at
    sg_ses_output,     \* detail parser: stdout of the last sg_ses --index
    enclosure_fan,     \* get_enclosure_fan: the Vec<EnclosureFan>
    enclosure_temp,    \* get_enclosure_temp: the Vec<EnclosureTemperatureSensor>
    enclosure_voltage, \* get_enclosure_voltage: the Vec<EnclosureVoltageSensor>
    queries,           \* history: the external commands, in the order issued
    running,           \* the entries of queries whose process has not ended
    dropped,           \* history: the matched line is_present has just made the closure drop, or <<>>
    listing,           \* history: the lines the open pipe has delivered and will deliver
    table,             \* enclosure_overview: the records add_row was called for
    text,              \* integer extraction alone: the text the chain is applied to
    extracted          \* integer extraction alone: <<>>, or the Option the chain has returned

vars == <<pass, pc, panic_at, lsscsi_output, li, sginq_output, enclosure, ei, stream, x,
          sg_ses_output, enclosure_fan, enclosure_temp, enclosure_voltage, queries,
          running, dropped, listing, table, text, extracted>>

extraction == <<text, extracted>>

discovery == <<lsscsi_output, li, sginq_output, enclosure>>

collections == <<enclosure_fan, enclosure_temp, enclosure_voltage>>

Passes == {"enclosure", "fan", "temp", "voltage"}

Init ==
    /\ pass \in Passes
    /\ pc = "start"
    /\ panic_at = "none"
    /\ lsscsi_output = <<>>
    /\ li = 1
    /\ sginq_output = <<>>
    /\ enclosure = <<>>
    /\ ei = 1
    /\ stream = <<>>
    /\ x = <<>>
    /\ sg_ses_output = <<>>
    /\ enclosure_fan = <<>>
    /\ enclosure_temp = <<>>
    /\ enclosure_voltage = <<>>
    /\ queries = <<>>
    /\ running = {}
    /\ dropped = <<>>
    /\ listing = <<>>
    /\ table = <<>>
    /\ text = <<>>
    /\ extracted = <<>>

\* mutant of ended: the command is spawned and never waited for
ended_not_waited(tool) == running

\* the processes still running once those of a tool have ended: output()
\* waits for the child, the drop of the pipe ends the pipeline
ended(tool) == {q \in running : queries[q].tool # tool}

\* an external command: the tool, its device argument, its --index argument
\* and whether the tool was launched
Query(tool, device, index, launched) ==
    [tool |-> tool, device |-> device, index |-> index, launched |-> launched]

\* the .expect() / .unwrap() / index that fails: the process is gone
Panic(at) ==
    /\ pc' = "panic"
    /\ panic_at' = at

(***************************************************************************)
(* get_enclosure                                                           *)
(***************************************************************************)
\* Command::new(LSSCSI).args(&["-g"]).output().expect(..): the launch
lsscsi_spawn ==
    /\ pc = "start"
    /\ \E launched \in BOOLEAN :
         /\ queries' = Append(queries, Query("lsscsi", <<>>, <<>>, launched))
         /\ IF launched
            THEN /\ pc' = "lsscsi"
                 /\ running' = running \cup {Len(queries')}
                 /\ UNCHANGED panic_at
            ELSE /\ Panic("lsscsi_expect")
                 /\ UNCHANGED running
    /\ UNCHANGED <<pass, extraction, listing, table, discovery, ei, stream, x, sg_ses_output, collections, dropped>>

\* .output() returns: lsscsi has ended and its stdout is collected
lsscsi_output_read ==
    /\ pc = "lsscsi"
    /\ \E out \in LsscsiOutputs : lsscsi_output' = out
    /\ li' = 1
    /\ running' = ended("lsscsi")
    /\ pc' = "scan"
    /\ UNCHANGED <<pass, extraction, listing, table, panic_at, sginq_output, enclosure, ei, stream, x, sg_ses_output,
                   collections, queries, dropped>>

p_output == lines_of(lsscsi_output)[li]

\* the lines of lsscsi that list an enclosure
enclosure_lines == SelectSeq(lines_of(lsscsi_output), LAMBDA l : contains(l, K_enclosu))

\* the host has one enclosure
single_enclosure == Len(enclosure_lines) = 1

\* the host has more than two enclosures
crowded == Len(enclosure_lines) > 2

\* The sensor listings a pass is explored with: on a host with more than
\* two enclosures an enclosure lists one sensor at most
listing_outputs ==
    IF crowded
    THEN {out \in ListingOutputs(pass, FALSE) : Len(out) <= 1}
    ELSE ListingOutputs(pass, single_enclosure)

s_output == retain_non_empty(split(p_output, <<" ">>))

device_index == position(s_output, K_dev)

\* mutant of is_enclosure_line: the lines with a device path are taken
is_device_line(l) == contains(l, K_dev)

\* p_output.contains("enclosu")
is_enclosure_line(l) == contains(l, K_enclosu)

\* one turn of the loop over the lines of lsscsi, up to the launch of sg_inq
get_enclosure_line ==
    /\ pc = "scan"
    /\ li <= Len(lines_of(lsscsi_output))
    /\ IF ~is_enclosure_line(p_output)
       THEN /\ li' = li + 1
            /\ UNCHANGED <<pc, panic_at, queries, running>>
       ELSE IF device_index = 0
       THEN /\ Panic("device_index_unwrap")
            /\ UNCHANGED <<li, queries, running>>
       ELSE \E launched \in BOOLEAN :
              /\ queries' = Append(queries, Query("sg_inq", s_output[device_index], <<>>, launched))
              /\ UNCHANGED li
              /\ IF launched
                 THEN /\ pc' = "sg_inq"
                      /\ running' = running \cup {Len(queries')}
                      /\ UNCHANGED panic_at
                 ELSE /\ Panic("sg_inq_expect")
                      /\ UNCHANGED running
    /\ UNCHANGED <<pass, extraction, listing, table, lsscsi_output, sginq_output, enclosure, ei, stream, x, sg_ses_output,
                   collections, dropped>>

\* mutant of new_enclosure: the slot keeps its brackets
new_enclosure_raw_slot(details) ==
    [slot        |-> s_output[1],
     device_path |-> s_output[device_index],
     vendor      |-> details.vendor,
     model       |-> details.ident,
     revision    |-> details.rev,
     serial      |-> details.serial]

\* the Enclosure pushed for the line the loop is at
new_enclosure(details) ==
    [slot        |-> replace_chars(s_output[1], {"[", "]"}),
     device_path |-> s_output[device_index],
     vendor      |-> details.vendor,
     model       |-> details.ident,
     revision    |-> details.rev,
     serial      |-> details.serial]

\* sg_inq has ended: get_enclosure_details parses its stdout and the
\* Enclosure is pushed
get_enclosure_details ==
    /\ pc = "sg_inq"
    /\ \E out \in SgInqOutputs(pass, single_enclosure) :
         /\ sginq_output' = out
         /\ enclosure' = Append(enclosure, new_enclosure(parse_enclosure_details(out)))
    /\ li' = li + 1
    /\ running' = ended("sg_inq")
    /\ pc' = "scan"
    /\ UNCHANGED <<pass, extraction, listing, table, panic_at, lsscsi_output, ei, stream, x, sg_ses_output, collections,
                   queries, dropped>>

\* mutant of table_rows: every record gets a row
table_rows_unfiltered(p, coll) == coll

\* the loops of enclosure_overview over the Vec of the view: the records
\* that get a row, in the order of the rows.  The temperature and voltage
\* views test temp.status != "Not installed"
table_rows(p, coll) ==
    IF p \in {"temp", "voltage"}
    THEN SelectSeq(coll, LAMBDA r : r.status # NotInstalled)
    ELSE coll

\* mutant of get_enclosure_return: the Vec is returned from inside the loop,
\* after the first enclosure
get_enclosure_return_early ==
    /\ pc = "scan"
    /\ li > Len(lines_of(lsscsi_output)) \/ Len(enclosure) > 0
    /\ pc' = IF pass = "enclosure" THEN "done" ELSE "enclosures"
    /\ ei' = 1
    /\ table' = IF pass = "enclosure" THEN table_rows(pass, enclosure) ELSE table
    /\ UNCHANGED <<pass, extraction, listing, panic_at, discovery, stream, x, sg_ses_output, collections, queries,
                   running, dropped>>

\* the loop is over: get_enclosure returns the Vec; the enclosure view adds
\* its rows
get_enclosure_return ==
    /\ pc = "scan"
    /\ li > Len(lines_of(lsscsi_output))
    /\ pc' = IF pass = "enclosure" THEN "done" ELSE "enclosures"
    /\ ei' = 1
    /\ table' = IF pass = "enclosure" THEN table_rows(pass, enclosure) ELSE table
    /\ UNCHANGED <<pass, extraction, listing, panic_at, discovery, stream, x, sg_ses_output, collections, queries,
                   running, dropped>>

(***************************************************************************)
(* get_enclosure_fan / get_enclosure_temp / get_enclosure_voltage          *)
(***************************************************************************)
\* the pattern of the grep of the pipeline
grep_pattern(p) ==
    CASE p = "fan" -> K_Cooling [] p = "temp" -> G_Temperature [] p = "voltage" -> G_Voltage

\* the keyword that ends the regex
regex_keyword(p) ==
    CASE p = "fan" -> K_Cooling [] p = "temp" -> K_Temperature [] p = "voltage" -> K_Voltage

\* grep: the lines that contain the pattern
grep(ls, pattern) == SelectSeq(ls, LAMBDA l : contains(l, pattern))

\* the collection of the pass
collection ==
    CASE pass = "fan" -> enclosure_fan
      [] pass = "temp" -> enclosure_temp
      [] pass = "voltage" -> enclosure_voltage
      [] OTHER -> <<>>

\* mutant of is_present: no reading is ever found
is_present_never(coll, _idx, serial) == FALSE

\* mutant of is_present: the serial is compared with the slot of the reading
is_present_by_slot(coll, _idx, serial) ==
    \E i \in 1..Len(coll) : coll[i].index = _idx /\ coll[i].slot = serial

\* iter().any(|c| c.index == _idx && c.serial == enclosure.serial)
is_present(coll, _idx, serial) ==
    \E i \in 1..Len(coll) : coll[i].index = _idx /\ coll[i].serial = serial

\* mutant of index_query: the slot is passed where the device path belongs
index_query_by_slot(e, _idx, launched) == Query("sg_ses_index", e.slot, _idx, launched)

\* Command::new(SG_SES).arg(format!("--index={}", index)).arg(device_path)
index_query(e, _idx, launched) == Query("sg_ses_index", e.device_path, _idx, launched)

\* subprocess::Exec::shell("sg_ses -j -ff <device> | grep <pattern>")
\* .stream_stdout().unwrap(): the shell is launched and the pipe is handed
\* to the BufReader.  When the shell cannot run sg_ses the pipeline still
\* starts and grep writes nothing.
stream_stdout ==
    /\ pc = "enclosures"
    /\ ei <= Len(enclosure)
    /\ \E launch \in {"no_shell", "no_tool", "ok"} :
         /\ queries' = Append(queries, Query("sg_ses_list", enclosure[ei].device_path, <<>>,
                                             launch = "ok"))
         /\ \/ /\ launch = "no_shell"
               /\ Panic("stream_stdout_unwrap")
               /\ UNCHANGED <<stream, listing, running>>
            \/ /\ launch = "no_tool"
               /\ stream' = <<>>
               /\ listing' = <<>>
               /\ running' = running \cup {Len(queries')}
               /\ pc' = "lines"
               /\ UNCHANGED panic_at
            \/ /\ launch = "ok"
               /\ \E out \in listing_outputs : stream' = grep(out, grep_pattern(pass))
               /\ listing' = stream'
               /\ running' = running \cup {Len(queries')}
               /\ pc' = "lines"
               /\ UNCHANGED panic_at
    /\ UNCHANGED <<pass, extraction, table, discovery, ei, x, sg_ses_output, collections, dropped>>

\* lines() is at the end of the pipe: the for_each is over, the pipe is
\* dropped and the loop goes to the next enclosure
stream_end ==
    /\ pc = "lines"
    /\ stream = <<>>
    /\ running' = ended("sg_ses_list")
    /\ ei' = ei + 1
    /\ pc' = "enclosures"
    /\ dropped' = <<>>
    /\ listing' = <<>>
    /\ UNCHANGED <<pass, extraction, table, panic_at, discovery, stream, x, sg_ses_output, collections, queries>>

\* one line of the pipe goes through filter and the closure of for_each,
\* up to the launch of the detail query
stream_line ==
    /\ pc = "lines"
    /\ stream # <<>>
    /\ stream' = Tail(stream)
    /\ IF ~is_match(Head(stream), regex_keyword(pass))
       THEN /\ dropped' = <<>>
            /\ UNCHANGED <<pc, panic_at, queries, running, x>>
       ELSE LET m == captures(Head(stream), regex_keyword(pass))
            IN  IF is_present(collection, m.id, enclosure[ei].serial)
                THEN /\ dropped' = Head(stream)
                     /\ UNCHANGED <<pc, panic_at, queries, running, x>>
                ELSE \E launched \in BOOLEAN :
                       /\ x' = Head(stream)
                       /\ queries' = Append(queries, index_query(enclosure[ei], m.id, launched))
                       /\ dropped' = <<>>
                       /\ IF launched
                          THEN /\ pc' = "index"
                               /\ running' = running \cup {Len(queries')}
                               /\ UNCHANGED panic_at
                          ELSE /\ Panic("sg_ses_expect")
                               /\ UNCHANGED running
    /\ UNCHANGED <<pass, extraction, listing, table, discovery, ei, sg_ses_output, collections>>

\* mutant of push: the reading is put in front of the Vec
push_front(coll, r) == <<r>> \o coll

\* Vec::push
push(coll, r) == Append(coll, r)

\* The detail outputs whose value does not fit 32 bits: explored for the
\* first reading of a host with one enclosure
overflow_outputs ==
    IF single_enclosure /\ collection = <<>>
    THEN CASE pass = "fan" -> {F_big} [] pass = "temp" -> {T_big} [] OTHER -> {}
    ELSE {}

\* mutant of m_desc: the description is taken without trim()
m_desc_untrimmed == captures(x, regex_keyword(pass)).desc

\* the captures of the line the closure is at
m_id == captures(x, regex_keyword(pass)).id

m_desc == trim(captures(x, regex_keyword(pass)).desc)

\* sg_ses --index has ended: get_enclosure_fan_speed parses its stdout and
\* the EnclosureFan is pushed
get_enclosure_fan_speed ==
    /\ pc = "index"
    /\ pass = "fan"
    /\ running' = ended("sg_ses_index")
    /\ \E out \in FanOutputs(single_enclosure) \cup overflow_outputs, overflow_checks \in BOOLEAN :
         LET r == parse_fan_speed(out, overflow_checks)
         IN  /\ sg_ses_output' = out
             /\ IF r.panic # "none"
                THEN /\ Panic(r.panic)
                     /\ UNCHANGED enclosure_fan
                ELSE /\ enclosure_fan' = push(enclosure_fan,
                            [slot        |-> enclosure[ei].slot,
                             serial      |-> enclosure[ei].serial,
                             description |-> m_desc,
                             index       |-> m_id,
                             speed       |-> r.speed,
                             comment     |-> r.comment])
                     /\ pc' = "lines"
                     /\ UNCHANGED panic_at
    /\ UNCHANGED <<pass, extraction, listing, table, discovery, ei, stream, x, enclosure_temp, enclosure_voltage, queries,
                   dropped>>

\* sg_ses --index has ended: get_enclosure_temp_value parses its stdout and
\* the EnclosureTemperatureSensor is pushed
get_enclosure_temp_value ==
    /\ pc = "index"
    /\ pass = "temp"
    /\ running' = ended("sg_ses_index")
    /\ \E out \in TempOutputs(single_enclosure) \cup overflow_outputs, overflow_checks \in BOOLEAN :
         LET r == parse_temp_value(out, overflow_checks)
         IN  /\ sg_ses_output' = out
             /\ IF r.panic # "none"
                THEN /\ Panic(r.panic)
                     /\ UNCHANGED enclosure_temp
                ELSE /\ enclosure_temp' = push(enclosure_temp,
                            [slot        |-> enclosure[ei].slot,
                             serial      |-> enclosure[ei].serial,
                             description |-> m_desc,
                             index       |-> m_id,
                             temperature |-> r.temp,
                             status      |-> r.status])
                     /\ pc' = "lines"
                     /\ UNCHANGED panic_at
    /\ UNCHANGED <<pass, extraction, listing, table, discovery, ei, stream, x, enclosure_fan, enclosure_voltage, queries,
                   dropped>>

\* sg_ses --index has ended: get_enclosure_voltage_value parses its stdout
\* and the EnclosureVoltageSensor is pushed
get_enclosure_voltage_value ==
    /\ pc = "index"
    /\ pass = "voltage"
    /\ running' = ended("sg_ses_index")
    /\ \E out \in VoltageOutputs(single_enclosure) :
         LET r == parse_voltage_value(out)
         IN  /\ sg_ses_output' = out
             /\ IF r.panic # "none"
                THEN /\ Panic(r.panic)
                     /\ UNCHANGED enclosure_voltage
                ELSE /\ enclosure_voltage' = push(enclosure_voltage,
                            [slot        |-> enclosure[ei].slot,
                             serial      |-> enclosure[ei].serial,
                             description |-> m_desc,
                             index       |-> m_id,
                             voltage     |-> r.voltage,
                             status      |-> r.status])
                     /\ pc' = "lines"
                     /\ UNCHANGED panic_at
    /\ UNCHANGED <<pass, extraction, listing, table, discovery, ei, stream, x, enclosure_fan, enclosure_temp, queries,
                   dropped>>

\* the loop over the enclosures is over: the pass returns its Vec and the
\* view adds its rows
pass_return ==
    /\ pc = "enclosures"
    /\ ei > Len(enclosure)
    /\ pc' = "done"
    /\ table' = table_rows(pass, collection)
    /\ UNCHANGED <<pass, extraction, listing, panic_at, discovery, ei, stream, x, sg_ses_output, collections,
                   queries, running, dropped>>

Next ==
    \/ lsscsi_spawn
    \/ lsscsi_output_read
    \/ get_enclosure_line
    \/ get_enclosure_details
    \/ get_enclosure_return
    \/ stream_stdout
    \/ stream_end
    \/ stream_line
    \/ get_enclosure_fan_speed
    \/ get_enclosure_temp_value
    \/ get_enclosure_voltage_value
    \/ pass_return

Spec == Init /\ [][Next]_vars

(***************************************************************************)
(* The integer extraction of get_enclosure_fan_speed and                   *)
(* get_enclosure_temp_value, applied alone to a text:                      *)
(* trim().chars().skip_while(..).take_while(..).fold(..)                   *)
(***************************************************************************)
X_speed == <<"s","p","e","e","d",":"," ","7","2","0","0"," ","r","p","m",","," ","c","o","m","m","e","n","t">>

X_nodigit == <<"n","o"," ","d","i","g","i","t","s"," ","h","e","r","e">>

ExtractChars == {"7", "0", " ", "r"}

ExtractTexts == SeqsUpTo(ExtractChars, MaxTextLen) \cup {X_speed, X_nodigit}

InitExtract ==
    /\ pass \in {"fan", "temp"}
    /\ pc = "start"
    /\ panic_at = "none"
    /\ lsscsi_output = <<>>
    /\ li = 1
    /\ sginq_output = <<>>
    /\ enclosure = <<>>
    /\ ei = 1
    /\ stream = <<>>
    /\ x = <<>>
    /\ sg_ses_output = <<>>
    /\ enclosure_fan = <<>>
    /\ enclosure_temp = <<>>
    /\ enclosure_voltage = <<>>
    /\ queries = <<>>
    /\ running = {}
    /\ dropped = <<>>
    /\ listing = <<>>
    /\ table = <<>>
    /\ text \in ExtractTexts
    /\ extracted = <<>>

\* the chain returns its Option<u32>
extract_first_integer ==
    /\ extracted = <<>>
    /\ extracted' = <<first_integer(text)>>
    /\ UNCHANGED <<pass, pc, panic_at, discovery, ei, stream, x, sg_ses_output, collections,
                   queries, running, dropped, listing, table, text>>

NextExtract == extract_first_integer

ExtractSpec == InitExtract /\ [][NextExtract]_vars

(***************************************************************************)
(* Vocabulary of the properties.                                           *)
(***************************************************************************)
\* the detail queries, in the order issued
index_log == SelectSeq(queries, LAMBDA q : q.tool = "sg_ses_index")

\* the open pipes and the detail queries among the running processes
open_pipes == {q \in running : queries[q].tool = "sg_ses_list"}

index_running == {q \in running : queries[q].tool = "sg_ses_index"}

\* get_enclosure has returned its Vec and no enclosure of it is processed yet
discovered == pc \in {"enclosures", "done"} /\ ei = 1

\* the whitespace-free tokens of a line of lsscsi
tokens(l) == SelectSeq(split(l, <<" ">>), LAMBDA w : w # <<>>)

\* a detail query is under way or has just made the parser panic
index_pending ==
    \/ pc = "index"
    \/ /\ pc = "panic"
       /\ panic_at \in {"speed_index", "speed_overflow", "speed_unwrap", "comment_index",
                        "temp_overflow", "temp_unwrap", "voltage_index", "voltage_unwrap"}

\* the numeric field of a reading of the pass
value(r) == IF pass = "fan" THEN r.speed ELSE r.temperature

\* the detail output has a value line no integer can be extracted from
no_integer(out) ==
    \E i \in 1..Len(lines_of(out)) :
        LET l == lines_of(out)[i]
        IN  \/ /\ pass = "fan"
               /\ contains(l, K_speed)
               /\ \/ Len(split(l, <<",">>)) < 2
                  \/ \A j \in 1..Len(split(l, <<",">>)[2]) : split(l, <<",">>)[2][j] \notin Digit
            \/ /\ pass = "temp"
               /\ contains(l, K_TemperatureEq)
               /\ \A j \in 1..Len(split(l, <<"=">>)[2]) : split(l, <<"=">>)[2][j] \notin Digit

\* the detail output has a "Voltage:" line without a float as second token
no_float(out) ==
    \E i \in 1..Len(lines_of(out)) :
        LET l == lines_of(out)[i]
        IN  /\ contains(l, K_VoltageColon)
            /\ \/ Len(split_whitespace(l)) < 2
               \/ ~is_f64(split_whitespace(l)[2])

\* the sg_inq output has a line with the prefix
has_prefix_line(out, prefix) ==
    \E i \in 1..Len(lines_of(out)) : contains(lines_of(out)[i], prefix)

(***************************************************************************)
(* C1                                                                      *)
(***************************************************************************)
\* C1: in every sensor pass the collection holds at most one reading per
\* pair (index, serial), whatever lines the listings of the enclosures hold
C1_UniquePair ==
    \A i, j \in 1..Len(collection) :
        (collection[i].index = collection[j].index /\ collection[i].serial = collection[j].serial)
            => i = j

\* a line whose pair was accepted before has just been read, and the pair is
\* once in the collection
C1_Witness ==
    /\ dropped # <<>>
    /\ Cardinality({i \in 1..Len(collection) :
            /\ collection[i].index = captures(dropped, regex_keyword(pass)).id
            /\ collection[i].serial = enclosure[ei].serial}) = 1

(***************************************************************************)
(* C2                                                                      *)
(***************************************************************************)
\* C2: the detail queries are those of the accepted pairs, one each and in
\* the order of acceptance: the k-th is issued with the index of the k-th
\* reading against the device path of the enclosure the reading is copied
\* from; a query under way is for a pair that is not in the collection, and a
\* line whose pair is already accepted issues none
C2_OneQueryPerPair ==
    /\ Len(index_log) = Len(collection) + (IF index_pending \/ panic_at = "sg_ses_expect" THEN 1 ELSE 0)
    /\ \A k \in 1..Len(collection) :
          /\ index_log[k].index = collection[k].index
          /\ \E n \in 1..Len(enclosure) :
                /\ enclosure[n].device_path = index_log[k].device
                /\ enclosure[n].serial = collection[k].serial
                /\ enclosure[n].slot = collection[k].slot
    /\ Len(index_log) > Len(collection) =>
          /\ index_log[Len(index_log)].device = enclosure[ei].device_path
          /\ ~\E i \in 1..Len(collection) :
                /\ collection[i].index = index_log[Len(index_log)].index
                /\ collection[i].serial = enclosure[ei].serial
    /\ dropped # <<>> => Len(index_log) = Len(collection)

\* two enclosures with different device paths have each been queried for
\* the same index, and a repeated line has issued no query
C2_Witness ==
    /\ dropped # <<>>
    /\ Len(index_log) = 2
    /\ index_log[1].index = index_log[2].index
    /\ index_log[1].device # index_log[2].device

(***************************************************************************)
(* C3                                                                      *)
(***************************************************************************)
\* C3 as claimed: no detail query runs while the sensor listing of the
\* enclosure is open with lines still to read
C3_NoQueryInsideListing == ~(index_running # {} /\ open_pipes # {} /\ stream # <<>>)

\* C3 as amended: the device listing and each identity query run alone; at
\* most one listing pipe is open and at most one detail query runs at a
\* time; a detail query runs only inside the open listing of its enclosure,
\* and has ended when the next line of the listing is read
C3_OneQueryAtATime ==
    /\ \A q \in running : queries[q].tool \in {"lsscsi", "sg_inq"} => running = {q}
    /\ Cardinality(open_pipes) <= 1
    /\ Cardinality(index_running) <= 1
    /\ index_running # {} => open_pipes # {} /\ pc \in {"index", "panic"}
    /\ \A q \in open_pipes : queries[q].device = enclosure[ei].device_path

\* a detail query runs while the listing of its enclosure has a line left
C3_Witness ==
    /\ pc = "index"
    /\ Cardinality(running) = 2
    /\ stream # <<>>

(***************************************************************************)
(* C4                                                                      *)
(***************************************************************************)
\* C4 as claimed: in a fan or temperature pass a detail output whose value
\* line yields no integer gives a reading with value 0, and the pass goes on
C4_NoIntegerIsZero ==
    (pass \in {"fan", "temp"} /\ pc # "index" /\ no_integer(sg_ses_output)) =>
        /\ pc # "panic"
        /\ Len(collection) > 0
        /\ value(collection[Len(collection)]) = 0

(***************************************************************************)
(* C5                                                                      *)
(***************************************************************************)
\* C5 as claimed: in a voltage pass a detail output whose "Voltage:" line
\* has no float only loses that reading: the pass goes on with the readings
\* accepted so far
C5_NoFloatSkipsReading ==
    (pass = "voltage" /\ pc # "index" /\ no_float(sg_ses_output)) => pc # "panic"

(***************************************************************************)
(* C6                                                                      *)
(***************************************************************************)
\* C6 as claimed: every field of an enclosure whose prefix line is absent
\* from the sg_inq output is "NONE"; the output with the Vendor line only
\* gives vendor "ACME" and model, revision and serial "NONE"
C6_AbsentFieldIsNone ==
    Len(enclosure) > 0 =>
        LET e == enclosure[Len(enclosure)]
        IN  /\ ~has_prefix_line(sginq_output, P_Vendor) => e.vendor = NONE
            /\ ~has_prefix_line(sginq_output, P_Product) => e.model = NONE
            /\ ~has_prefix_line(sginq_output, P_Revision) => e.revision = NONE
            /\ ~has_prefix_line(sginq_output, P_Serial) => e.serial = NONE
            /\ sginq_output = join_lines(<<I_Vendor>>) =>
                  /\ e.vendor = <<"A", "C", "M", "E">>
                  /\ e.model = NONE /\ e.revision = NONE /\ e.serial = NONE

(***************************************************************************)
(* C7                                                                      *)
(***************************************************************************)
\* C7: when get_enclosure returns, its Vec holds
\* one Enclosure per line with the marker, in the order of the lines and
\* with repeated lines kept; the slot is the first token without brackets,
\* the device path the first token with "/dev/" in it
C7_OneEnclosurePerLine ==
    discovered =>
        /\ Len(enclosure) = Len(enclosure_lines)
        /\ \A k \in 1..Len(enclosure) :
              LET w == tokens(enclosure_lines[k])
                  e == enclosure[k]
              IN  /\ e.slot = SelectSeq(w[1], LAMBDA c : c \notin {"[", "]"})
                  /\ \E d \in 1..Len(w) :
                        /\ e.device_path = w[d]
                        /\ find(w[d], K_dev) > 0
                        /\ \A b \in 1..(d - 1) : find(w[b], K_dev) = 0

\* the same line twice has given two enclosures, with the device path taken
\* from the fourth token
C7_Witness ==
    /\ pc = "done"
    /\ Len(enclosure) = 2
    /\ enclosure[1] = enclosure[2]
    /\ enclosure[1].slot = <<"1">>
    /\ tokens(enclosure_lines[1])[4] = enclosure[1].device_path

(***************************************************************************)
(* C8                                                                      *)
(***************************************************************************)
\* C8 as claimed: a line of lsscsi with the marker and without a device path
\* token does not abort the discovery: the other enclosure lines still give
\* their Enclosure
C8_NoDeviceTokenGoesOn ==
    (pc \notin {"start", "lsscsi"} /\
     \E k \in 1..Len(enclosure_lines) : position(tokens(enclosure_lines[k]), K_dev) = 0) =>
        /\ panic_at # "device_index_unwrap"
        /\ discovered =>
              Len(enclosure) = Len(SelectSeq(enclosure_lines,
                                             LAMBDA l : position(tokens(l), K_dev) > 0))

(***************************************************************************)
(* C9                                                                      *)
(***************************************************************************)
\* C9 as claimed: when a tool of the pass cannot be launched the command is
\* aborted at once: the failed launch is the last command issued and no
\* collection is returned
C9_FailedLaunchAborts ==
    \A k \in 1..Len(queries) :
        ~queries[k].launched => (k = Len(queries) /\ pc = "panic")

(***************************************************************************)
(* C10                                                                     *)
(***************************************************************************)
\* C10: when lsscsi has run and its output has no line with the marker,
\* nothing panics, the enclosure list and the collection of the pass stay empty and
\* lsscsi is the only command issued
C10_NoEnclosureNoQuery ==
    (pc \notin {"start", "lsscsi"} /\ panic_at # "lsscsi_expect" /\
     find(lsscsi_output, K_enclosu) = 0) =>
        /\ pc \in {"scan", "enclosures", "done"}
        /\ enclosure = <<>>
        /\ enclosure_fan = <<>> /\ enclosure_temp = <<>> /\ enclosure_voltage = <<>>
        /\ Len(queries) = 1
        /\ queries[1].tool = "lsscsi"

\* a sensor pass has returned on a host whose lsscsi lists a disk only
C10_Witness ==
    /\ pc = "done"
    /\ pass # "enclosure"
    /\ lsscsi_output = join_lines(<<L_disk>>)
    /\ collection = <<>>

(***************************************************************************)
(* C11                                                                     *)
(***************************************************************************)
\* C11: a sensor collection only grows by one reading at its end, and the
\* reading has the slot and the serial of the enclosure the loop is at and
\* the index and the trimmed description of the match of the line just read
\* from the listing of that enclosure; when the listing of an enclosure ends
\* without any detail query, the collection is as it was, nothing panics
\* and the loop goes to the next enclosure
C11_ReadingOfItsEnclosure ==
    [][/\ collection' # collection =>
             /\ collection' = Append(collection, collection'[Len(collection')])
             /\ is_match(x, regex_keyword(pass))
             /\ \A q \in open_pipes : queries[q].device = enclosure[ei].device_path
             /\ LET r == collection'[Len(collection')]
                    m == captures(x, regex_keyword(pass))
                IN  /\ r.slot = enclosure[ei].slot
                    /\ r.serial = enclosure[ei].serial
                    /\ r.index = m.id
                    /\ r.description = trim(m.desc)
       /\ (pc = "lines" /\ stream = <<>> /\ queries[Len(queries)].tool = "sg_ses_list") =>
             /\ collection' = collection
             /\ panic_at' = "none"
             /\ pc' = "enclosures"
             /\ ei' = ei + 1]_vars

\* the pass has returned one reading, of the second of two enclosures with
\* different slots: the listing of the first had no matching line
C11_Witness ==
    /\ pc = "done"
    /\ Len(enclosure) = 2
    /\ enclosure[1].slot # enclosure[2].slot
    /\ Len(collection) = 1
    /\ collection[1].slot = enclosure[2].slot
    /\ Len(index_log) = 1
    /\ index_log[1].device = enclosure[2].device_path

(***************************************************************************)
(* C12                                                                     *)
(***************************************************************************)
\* the readings whose status is not "Not installed"
installed == {i \in 1..Len(collection) : collection[i].status # NotInstalled}

\* C12: when the temperature or the voltage view is done, its table has one
\* row for every reading whose status is not "Not installed" and no other
\* row, and the rows are in the order of the collection
C12_TableHidesNotInstalled ==
    (pc = "done" /\ pass \in {"temp", "voltage"}) =>
        /\ Len(table) = Cardinality(installed)
        /\ \A k \in 1..Len(table) :
              table[k] = collection[CHOOSE i \in installed :
                                        Cardinality({j \in installed : j <= i}) = k]

\* the view is done with two readings: the first is not installed and has
\* no row, the second has the only row
C12_Witness ==
    /\ pc = "done"
    /\ pass \in {"temp", "voltage"}
    /\ Len(collection) = 2
    /\ collection[1].status = NotInstalled
    /\ collection[2].status # NotInstalled
    /\ table = <<collection[2]>>

(***************************************************************************)
(* C13                                                                     *)
(***************************************************************************)
\* the queries of the sensor stage, by their place in the order of issue
sensor_queries == {k \in 1..Len(queries) : queries[k].tool \in {"sg_ses_list", "sg_ses_index"}}

discovery_queries == {k \in 1..Len(queries) : queries[k].tool \in {"lsscsi", "sg_inq"}}

\* C13: every query of discovery is issued before every sensor listing and
\* detail query and has ended by then: lsscsi is the first command, none of
\* lsscsi and sg_inq is running once a sensor query is issued, and when the
\* first sensor query is issued sg_inq has run once for every line of lsscsi
\* with the marker
C13_DiscoveryFirst ==
    sensor_queries # {} =>
        /\ queries[1].tool = "lsscsi"
        /\ \A j \in discovery_queries :
              /\ \A k \in sensor_queries : j < k
              /\ queries[j].launched
              /\ j \notin running
        /\ Cardinality(sensor_queries) = 1 =>
              Cardinality(discovery_queries) = 1 + Len(enclosure_lines)

\* the first sensor listing has just been opened on a host with two
\* enclosures, after lsscsi and two sg_inq
C13_Witness ==
    /\ pc = "lines"
    /\ Len(queries) = 4
    /\ queries[2].tool = "sg_inq" /\ queries[3].tool = "sg_inq"
    /\ queries[4].tool = "sg_ses_list"

(***************************************************************************)
(* C14                                                                     *)
(***************************************************************************)
\* the detail output has no line with one of the markers of the parsers
no_marker(out) ==
    \A i \in 1..Len(lines_of(out)) :
        LET l == lines_of(out)[i]
        IN  /\ ~contains(l, K_speed)
            /\ ~contains(l, K_status)
            /\ ~contains(l, K_TemperatureEq)
            /\ ~contains(l, K_VoltageColon)

\* the reading has the defaults of its parser
has_defaults(r) ==
    CASE pass = "fan"     -> r.speed = 0 /\ r.comment = <<>>
      [] pass = "temp"    -> r.temperature = 0 /\ r.status = <<>>
      [] pass = "voltage" -> r.voltage = [num |-> 0, scale |-> 0] /\ r.status = <<>>

\* C14: when the detail query returns an output without any marker line,
\* nothing panics and the reading is appended with the defaults: speed 0 and
\* empty comment, temperature 0 and empty status, voltage 0.0 and empty status
C14_NoMarkerGivesDefaults ==
    [][(pc = "index" /\ pc' # "index" /\ no_marker(sg_ses_output')) =>
           /\ pc' = "lines"
           /\ panic_at' = "none"
           /\ Len(collection') = Len(collection) + 1
           /\ has_defaults(collection'[Len(collection')])]_vars

\* a reading has just been built from a non-empty output without marker
C14_Witness ==
    /\ pc = "lines"
    /\ sg_ses_output # <<>>
    /\ no_marker(sg_ses_output)
    /\ Len(collection) = 1
    /\ has_defaults(collection[1])

(***************************************************************************)
(* C15                                                                     *)
(***************************************************************************)
\* "-?" and one or more digits
is_int_text(s) ==
    LET d == IF Len(s) > 0 /\ Head(s) = "-" THEN Tail(s) ELSE s
    IN  Len(d) > 0 /\ \A i \in 1..Len(d) : d[i] \in Digit

\* l has the token "[<int>,<int>]" from position p to position q
is_index_token(l, p, q) ==
    /\ p < q
    /\ l[p] = "["
    /\ l[q] = "]"
    /\ \E c \in (p + 2)..(q - 2) :
          /\ l[c] = ","
          /\ is_int_text(SubSeq(l, p + 1, c - 1))
          /\ is_int_text(SubSeq(l, c + 1, q - 1))

\* the bracketed tokens of l that the class keyword follows, later in l
index_tokens(l) ==
    LET opens  == {i \in 1..Len(l) : l[i] = "["}
        closes == {i \in 1..Len(l) : l[i] = "]"}
    IN  {t \in opens \X closes :
            /\ is_index_token(l, t[1], t[2])
            /\ \E k \in (t[2] + 1)..Len(l) :
                  SubSeq(l, k, k + Len(regex_keyword(pass)) - 1) = regex_keyword(pass)}

\* the first of them
first_token(l) ==
    LET toks == index_tokens(l)
    IN  CHOOSE t \in toks : \A u \in toks : t[1] <= u[1]

\* C15: a line read from the listing that has no bracketed "<int>,<int>"
\* token followed later by the class keyword is skipped: no reading, no
\* query, no panic, and the loop stays on the listing.  A detail query is
\* only issued for a line with such a token, with the content of the first
\* such token as index, and the reading built from the line has that index
\* and the trimmed text before the token as description
C15_MatchIsBracketedIndex ==
    [][/\ (pc = "lines" /\ stream # <<>> /\ index_tokens(Head(stream)) = {}) =>
             /\ collection' = collection
             /\ queries' = queries
             /\ panic_at' = "none"
             /\ pc' = "lines"
       /\ (pc = "lines" /\ queries' # queries) =>
             /\ stream # <<>>
             /\ x' = Head(stream)
             /\ index_tokens(Head(stream)) # {}
             /\ LET t == first_token(Head(stream))
                IN  queries'[Len(queries')].index = SubSeq(Head(stream), t[1] + 1, t[2] - 1)
       /\ collection' # collection =>
             /\ index_tokens(x) # {}
             /\ LET t == first_token(x)
                    r == collection'[Len(collection')]
                IN  /\ r.index = SubSeq(x, t[1] + 1, t[2] - 1)
                    /\ r.description = trim(SubSeq(x, 1, t[1] - 1))]_vars

\* a reading has been built from a line with several bracketed tokens: its
\* index is the second one, the first that is a pair of integers, and a
\* line with the keyword before its only token has been skipped
C15_Witness ==
    /\ pc = "done"
    /\ pass = "fan"
    /\ Len(collection) = 1
    /\ collection[1].index = <<"6", ",", "7">>
    /\ collection[1].description = <<"F", "3", " ", "[", "5", "]">>
    /\ Len(index_log) = 1

(***************************************************************************)
(* C16                                                                     *)
(***************************************************************************)
\* the positions of the digits of the text
digit_positions == {i \in 1..Len(text) : text[i] \in {"0","1","2","3","4","5","6","7","8","9"}}

\* the decimal value of the characters a..b of the text
RECURSIVE run_value(_, _)
run_value(a, b) ==
    IF b < a THEN 0
    ELSE run_value(a, b - 1) * 10 +
         (CHOOSE d \in 0..9 : <<"0","1","2","3","4","5","6","7","8","9">>[d + 1] = text[b])

\* C16: applied to a text (of at most MaxTextLen characters, or one of the
\* two texts of the examples; digit runs of ten or more digits are not among
\* them), the chain returns None when the text has no digit and otherwise
\* Some of the decimal value of the digits from the first digit of the text
\* up to the character before the next non-digit; "speed: 7200 rpm, comment"
\* gives 7200 and "no digits here" gives None
C16_FirstDigitRun ==
    extracted # <<>> =>
        /\ digit_positions = {} => ~extracted[1].some
        /\ digit_positions # {} =>
              LET a == CHOOSE i \in digit_positions : \A j \in digit_positions : i <= j
                  b == CHOOSE i \in a..Len(text) :
                          /\ \A k \in a..i : k \in digit_positions
                          /\ (i + 1) \notin digit_positions
              IN  /\ extracted[1].some
                  /\ extracted[1].val = run_value(a, b)
        /\ text = X_speed => extracted[1].some /\ extracted[1].val = 7200
        /\ text = X_nodigit => ~extracted[1].some

\* the chain has returned 7 for a text with a prefix without digits, the
\* run "7", a non-digit and a further digit
C16_Witness ==
    /\ text = <<"r", "7", " ", "7">>
    /\ extracted # <<>>
    /\ extracted[1].some
    /\ extracted[1].val = 7

(***************************************************************************)
(* C17                                                                     *)
(***************************************************************************)
\* the places in the history of the detail queries and of the listings
detail_positions == {k \in 1..Len(queries) : queries[k].tool = "sg_ses_index"}

listing_positions == {k \in 1..Len(queries) : queries[k].tool = "sg_ses_list"}

\* the enclosure the loop was at when the i-th reading was accepted: the
\* listings opened before the i-th detail query
accepted_at(details, listings, i) ==
    LET k == CHOOSE d \in details : Cardinality({j \in details : j <= d}) = i
    IN  Cardinality({j \in listings : j < k})

\* the lines of the open listing the closure is through with
handled ==
    SubSeq(listing, 1, Len(listing) - Len(stream) - (IF pc = "index" THEN 1 ELSE 0))

\* the readings are in the order of the enclosures, each with the slot and
\* the serial of the enclosure it was accepted at; the readings of the
\* enclosure whose listing is open are in the order of the first lines of
\* the listing that carry their indexes, and every index the closure is
\* through with has its reading
ordered ==
    LET n == Len(collection)
        kw == regex_keyword(pass)
        details == detail_positions
        listings == listing_positions
    IN  \A at \in {[i \in 1..n |-> accepted_at(details, listings, i)]} :
          /\ \A i \in 1..n :
                /\ at[i] \in 1..Len(enclosure)
                /\ collection[i].slot = enclosure[at[i]].slot
                /\ collection[i].serial = enclosure[at[i]].serial
          /\ \A i \in 1..n, j \in 1..n : i < j => at[i] <= at[j]
          /\ pc \in {"lines", "index"} =>
                \A ids \in {[k \in 1..Len(handled) |->
                                IF is_match(handled[k], kw)
                                THEN <<captures(handled[k], kw).id>>
                                ELSE <<>>]} :
                   LET first(id) == CHOOSE k \in 1..Len(handled) :
                                       ids[k] = <<id>> /\ \A j \in 1..(k - 1) : ids[j] # <<id>>
                       here == {i \in 1..n : at[i] = ei}
                   IN  /\ \A i \in here :
                             \E k \in 1..Len(handled) : ids[k] = <<collection[i].index>>
                       /\ \A k \in 1..Len(handled) :
                             ids[k] # <<>> =>
                                \E i \in 1..n : /\ collection[i].index = ids[k][1]
                                                /\ collection[i].serial = enclosure[ei].serial
                       /\ \A i \in here, j \in here :
                             i < j => first(collection[i].index) < first(collection[j].index)

\* C17: at every moment of a sensor pass the readings are in the order of
\* the enclosures and, for the enclosure whose listing is open, in the order
\* of the first occurrence of each index in the listing; in every step the
\* collection keeps the readings it has, in their places, and grows at its
\* end only; a line whose pair is present changes nothing
C17_DiscoveryThenFirstOccurrence ==
    /\ []ordered
    /\ [][/\ Len(collection) <= Len(collection')
          /\ SubSeq(collection', 1, Len(collection)) = collection
          /\ dropped' # <<>> => collection' = collection]_vars

\* the first enclosure has listed 3,0 before 2,-1; the second enclosure has
\* listed 2,-1 twice: three readings in that order, the repeated line dropped
C17_Witness ==
    /\ pc = "lines"
    /\ ei = 2
    /\ dropped # <<>>
    /\ Len(collection) = 3
    /\ collection[1].index = <<"3", ",", "0">>
    /\ collection[2].index = <<"2", ",", "-", "1">>
    /\ collection[3].index = <<"2", ",", "-", "1">>
    /\ collection[3].slot # collection[1].slot
    /\ collection[3].serial # collection[1].serial

(***************************************************************************)
(* C18                                                                     *)
(***************************************************************************)
\* the detail queries issued since the open listing was opened
detail_since_listing ==
    {k \in detail_positions : \A l \in listing_positions : l < k}

\* C18: while the listing of an enclosure is open, an index that a handled
\* line carries and that an earlier enclosure with the same serial has a
\* reading for keeps that single reading, with the slot of the earlier
\* enclosure and a detail query against the device path of the earlier
\* enclosure; the open enclosure issues no detail query for the index and
\* gets no reading of it
C18_SuppressionBySerial ==
    pc \in {"lines", "index"} =>
       LET n == Len(collection)
           kw == regex_keyword(pass)
           details == detail_positions
           listings == listing_positions
       IN  \A at \in {[i \in 1..n |-> accepted_at(details, listings, i)]} :
           \A k \in 1..Len(handled) :
           \A id \in {IF is_match(handled[k], kw) THEN <<captures(handled[k], kw).id>> ELSE <<>>} :
           \A i \in 1..n :
              ( /\ id = <<collection[i].index>>
                /\ collection[i].serial = enclosure[ei].serial
                /\ at[i] < ei ) =>
                 /\ \A j \in 1..n :
                       collection[j].index = collection[i].index
                          /\ collection[j].serial = collection[i].serial => j = i
                 /\ collection[i].slot = enclosure[at[i]].slot
                 /\ index_log[i].index = collection[i].index
                 /\ index_log[i].device = enclosure[at[i]].device_path
                 /\ \A q \in detail_since_listing : <<queries[q].index>> # id

\* two enclosures with different device paths both have the serial NONE and
\* both list 2,-1: the line of the second has been dropped, the one reading
\* has the slot of the first and the one detail query went to the first
C18_Witness ==
    /\ pc = "lines"
    /\ ei = 2
    /\ enclosure[1].serial = NONE
    /\ enclosure[2].serial = NONE
    /\ enclosure[1].device_path # enclosure[2].device_path
    /\ enclosure[1].slot # enclosure[2].slot
    /\ dropped # <<>>
    /\ stream = <<>>
    /\ Len(collection) = 1
    /\ collection[1].index = <<"2", ",", "-", "1">>
    /\ collection[1].slot = enclosure[1].slot
    /\ Len(index_log) = 1
    /\ index_log[1].device = enclosure[1].device_path

(***************************************************************************)
(* C19                                                                     *)
(***************************************************************************)
\* the orders a sequence of lines can be written in
permutations(ls) ==
    {[i \in 1..Len(ls) |-> ls[f[i]]] :
        f \in {g \in [1..Len(ls) -> 1..Len(ls)] :
                  \A i \in 1..Len(ls), j \in 1..Len(ls) : i # j => g[i] # g[j]}}

\* the lines sg_inq wrote
sginq_lines == SelectSeq(lines_of(sginq_output), LAMBDA l : l # <<>>)

\* C19 as claimed: the vendor, model, revision and serial of an enclosure
\* are those get_enclosure_details gives for the lines of its sg_inq output
\* written in any other order
C19_LineOrderIrrelevant ==
    Len(enclosure) > 0 =>
        LET e == enclosure[Len(enclosure)]
        IN  \A ls \in permutations(sginq_lines) :
               LET d == parse_enclosure_details(join_lines(ls))
               IN  /\ d.vendor = e.vendor
                   /\ d.ident = e.model
                   /\ d.rev = e.revision
                   /\ d.serial = e.serial

(***************************************************************************)
(* C20                                                                     *)
(***************************************************************************)
\* the commands of a tool in the history
issued(tool) == {k \in 1..Len(queries) : queries[k].tool = tool}

\* a command could not be launched
launch_failed == \E k \in 1..Len(queries) : ~queries[k].launched

\* one lsscsi, one sg_inq for every enclosure line, one listing for every
\* enclosure and one detail query for every reading
exact_queries ==
    /\ Cardinality(issued("lsscsi")) = 1
    /\ Cardinality(issued("sg_inq")) = Len(enclosure_lines)
    /\ Cardinality(issued("sg_ses_list")) = Len(enclosure)
    /\ Cardinality(issued("sg_ses_index")) = Len(collection)

\* the pass has returned its Vec and the view has its rows
returned ==
    /\ pc = "done"
    /\ running = {}
    /\ table = table_rows(pass, collection)

\* C20 as claimed: a sensor pass whose commands are all launched, each
\* ending with an output, does not stop before it returns, and when it has
\* stopped it has returned its collection with exactly the queries counted
\* above
C20_PassReturns ==
    (pass \in {"fan", "temp", "voltage"} /\ ~launch_failed) =>
        /\ pc # "panic"
        /\ pc = "done" => returned /\ exact_queries

(***************************************************************************)
(* C21                                                                     *)
(***************************************************************************)
\* the decimal value of a digit run, exact, as hi * Limb + lo with lo < Limb
RECURSIVE exact_value(_, _)
exact_value(acc, s) ==
    IF Len(s) = 0 THEN acc
    ELSE LET lo == acc.lo * 10 + to_digit(Head(s))
         IN  exact_value([hi |-> acc.hi * 10 + (lo \div Limb), lo |-> lo % Limb], Tail(s))

\* the digit runs of the speed or temperature fields of a detail output
value_runs(out) ==
    LET ls == lines_of(out)
    IN  {digit_run(split(ls[i], <<",">>)[2]) :
            i \in {k \in 1..Len(ls) : /\ pass = "fan"
                                      /\ contains(ls[k], K_speed)
                                      /\ Len(split(ls[k], <<",">>)) >= 2}}
        \cup
        {digit_run(split(ls[i], <<"=">>)[2]) :
            i \in {k \in 1..Len(ls) : pass = "temp" /\ contains(ls[k], K_TemperatureEq)}}

\* C21 as claimed: when the detail parser has gone through an output whose
\* speed or temperature field has a digit run, the accumulation has not
\* overflowed, and the reading built from the output has the decimal value
\* of the run
C21_ValueIsDecimalValue ==
    (pass \in {"fan", "temp"} /\ pc \in {"lines", "panic"} /\ sg_ses_output # <<>>) =>
        \A run \in value_runs(sg_ses_output) :
            run # <<>> =>
               /\ panic_at \notin {"speed_overflow", "temp_overflow"}
               /\ (pc = "lines" /\ Cardinality(value_runs(sg_ses_output)) = 1) =>
                     LET v == value(collection[Len(collection)])
                         e == exact_value([hi |-> 0, lo |-> 0], run)
                     IN  v \div Limb = e.hi /\ v % Limb = e.lo

====
